---- MODULE Spec2Model ----
(***************************************************************************)
(* Model of the RATP restroom dashboard (app.py): the cached HTTP fetch,   *)
(* the cleaning of the fetched table, the sidebar filter and the four      *)
(* pages, as executed by one script run per user interaction.              *)
(*                                                                         *)
(* pandas semantics assumed (pandas 1.x / 2.x):                            *)
(*   - DataFrame(list of dicts): columns are the union of the keys, a key  *)
(*     a dict lacks yields NaN, an explicit JSON null stays None;          *)
(*   - df.empty is true when either axis has length 0;                     *)
(*   - dropna(subset=...) raises KeyError when a named column is missing;  *)
(*   - dropna / fillna treat both NaN and None as missing;                 *)
(*   - astype(str) turns NaN into 'nan' and None into 'None'.              *)
(***************************************************************************)
EXTENDS Integers, Sequences, FiniteSets

VARIABLES
    pc,          \* position: "start" / "input" before a run, then "rendered", "crashed" or "cleaned"
    cache,       \* st.cache_data entry of load_data_from_api
    fetchCount,  \* number of HTTP requests issued so far
    served,      \* how the last run obtained raw_df: "none", "fetched" or "cached"
    menu,        \* value of the navigation radio
    sel,         \* state of the multiselect widget
    raw_df,      \* table returned by load_data_from_api in the last run
    df,          \* table returned by clean_data in the last run
    df_filtre,   \* filtered view of the last run
    shown,       \* elements displayed by the last run
    metrics,     \* the two st.metric values of the last run, <<>> when not displayed
    response,    \* what the last HTTP request met
    exception    \* uncaught exception of the last run, "none" if it completed

vars == <<pc, cache, fetchCount, served, menu, sel, raw_df, df, df_filtre, shown, metrics, response, exception>>

-----------------------------------------------------------------------------
(* Bounds *)

MaxRecords == 2
MaxFetches == 3

-----------------------------------------------------------------------------
(* Values held by table cells *)

NaN == [t |-> "nan"]
None == [t |-> "none"]
Str(s) == [t |-> "str", v |-> s]
Num(n) == [t |-> "num", v |-> n]
List(q) == [t |-> "list", v |-> q]

isna(x) == x.t \in {"nan", "none"}

isinstance_list(x) == x.t = "list"

\* str(x) as applied cell by cell by Series.astype(str)
astype_str(x) ==
    CASE x.t = "str" -> x
      [] x.t = "nan" -> Str("nan")
      [] x.t = "none" -> Str("None")
      [] OTHER -> Str("?")

-----------------------------------------------------------------------------
(* Tables: a set of column names and a sequence of rows; a row keeps the   *)
(* index label it got at construction and one value per column.            *)

EmptyDataFrame == [cols |-> {}, rows |-> <<>>]

DataFrame(records) ==
    LET columns == UNION {DOMAIN records[i] : i \in 1..Len(records)}
    IN [cols |-> columns,
        rows |-> [i \in 1..Len(records) |->
                    [idx |-> i - 1,
                     val |-> [c \in columns |->
                                IF c \in DOMAIN records[i] THEN records[i][c] ELSE NaN]]]]

empty(d) == Len(d.rows) = 0 \/ d.cols = {}

\* df[name] = series, one value per row; adds the column or overwrites it
assign(d, name, series) ==
    [cols |-> d.cols \cup {name},
     rows |-> [i \in 1..Len(d.rows) |->
                 [idx |-> d.rows[i].idx,
                  val |-> [c \in d.cols \cup {name} |->
                             IF c = name THEN series[i] ELSE d.rows[i].val[c]]]]]

\* a column filled with one value
constant(d, x) == [i \in 1..Len(d.rows) |-> x]

dropna_keep(r, subset) == \A c \in subset : ~isna(r.val[c])

dropna(d, subset) ==
    [cols |-> d.cols, rows |-> SelectSeq(d.rows, LAMBDA r : dropna_keep(r, subset))]

mapping(c) ==
    CASE c = "ligne" -> "Ligne"
      [] c = "station" -> "Station"
      [] c = "tarif_gratuit_payant" -> "Tarif"
      [] c = "acces_bouton_poussoir" -> "Accessibilite"
      [] c = "en_zone_controlee_ou_hors_zone_controlee_station" -> "Zone"
      [] OTHER -> c

unmapping(d, c) == CHOOSE o \in d.cols : mapping(o) = c

rename(d) ==
    LET columns == {mapping(c) : c \in d.cols}
    IN [cols |-> columns,
        rows |-> [i \in 1..Len(d.rows) |->
                    [idx |-> d.rows[i].idx,
                     val |-> [c \in columns |-> d.rows[i].val[unmapping(d, c)]]]]]

-----------------------------------------------------------------------------
(* clean_data *)

\* variant: both coordinates taken from element 1
coord_lat_elem1(x) == IF isinstance_list(x) /\ Len(x.v) = 2 THEN x.v[2] ELSE None

coord_lat(x) == IF isinstance_list(x) /\ Len(x.v) = 2 THEN x.v[1] ELSE None
coord_lon(x) == IF isinstance_list(x) /\ Len(x.v) = 2 THEN x.v[2] ELSE None

extract_coords(d) ==
    IF "coord_geo" \in d.cols
    THEN assign(assign(d, "lat", [i \in 1..Len(d.rows) |-> coord_lat(d.rows[i].val["coord_geo"])]),
                "lon", [i \in 1..Len(d.rows) |-> coord_lon(d.rows[i].val["coord_geo"])])
    ELSE d

dropna_raises(d) == ~({"lat", "lon"} \subseteq d.cols)

\* variant: missing values of an existing Tarif column are left as they are
fill_tarif_nofill(d) ==
    IF "Tarif" \in d.cols THEN d ELSE assign(d, "Tarif", constant(d, Str("Inconnu")))

fill_tarif(d) ==
    IF "Tarif" \in d.cols
    THEN assign(d, "Tarif", [i \in 1..Len(d.rows) |->
                               IF isna(d.rows[i].val["Tarif"])
                               THEN Str("Inconnu") ELSE d.rows[i].val["Tarif"]])
    ELSE assign(d, "Tarif", constant(d, Str("Inconnu")))

fill_ligne(d) ==
    IF "Ligne" \in d.cols
    THEN assign(d, "Ligne", [i \in 1..Len(d.rows) |-> astype_str(d.rows[i].val["Ligne"])])
    ELSE assign(d, "Ligne", constant(d, Str("Inconnue")))

add_color(d) == assign(d, "color", constant(d, Str("#FF0000")))

\* result: the exception raised ("none" when it returns) and the table returned
clean_data(d) ==
    IF empty(d) THEN [exc |-> "none", df |-> d]
    ELSE LET d1 == extract_coords(d)
         IN IF dropna_raises(d1)
            THEN [exc |-> "KeyError", df |-> EmptyDataFrame]
            ELSE [exc |-> "none",
                  df |-> add_color(fill_ligne(fill_tarif(rename(dropna(d1, {"lat", "lon"})))))]

-----------------------------------------------------------------------------
(* load_data_from_api *)

ConnectionError == "Erreur de connexion a l'API RATP."
TechnicalError == "Erreur technique : "

\* what one HTTP request can meet: requests.get raising, or a status and a
\* body; the body is not JSON, a JSON array, or a JSON object with or
\* without the key 'records'; each record has or lacks the key 'fields'
NoResponse == [exc |-> FALSE, status |-> 0, json |-> "none", has_records |-> FALSE, records |-> <<>>]

\* variant: r.get('fields', {}) instead of r['fields']
fields_get_default(records) == FALSE

fields_raises(records) == \E i \in 1..Len(records) : ~records[i].has_fields

load_data_from_api(out) ==
    IF out.exc
    THEN [df |-> EmptyDataFrame, errors |-> <<TechnicalError>>]
    ELSE IF out.status = 200
         THEN IF out.json # "dict"
              THEN [df |-> EmptyDataFrame, errors |-> <<TechnicalError>>]
              ELSE LET records == IF out.has_records THEN out.records ELSE <<>>
                   IN IF fields_raises(records)
                      THEN [df |-> EmptyDataFrame, errors |-> <<TechnicalError>>]
                      ELSE [df |-> DataFrame([i \in 1..Len(records) |-> records[i].fields]),
                            errors |-> <<>>]
         ELSE [df |-> EmptyDataFrame, errors |-> <<ConnectionError>>]

\* st.cache_data: the function has no arguments, so there is one entry
\* variant: the function is not cached
CacheLookupMiss(c) == FALSE

CacheLookup(c) == c.hit

Load(out) ==
    IF CacheLookup(cache)
    THEN [res |-> [df |-> cache.df, errors |-> cache.errors], fetched |-> FALSE]
    ELSE [res |-> load_data_from_api(out), fetched |-> TRUE]

-----------------------------------------------------------------------------
(* Sidebar filter *)

lignes_dispo(d) == {d.rows[k].val["Ligne"] : k \in 1..Len(d.rows)}

multiselect(s, options) == IF s.user THEN s.v ELSE options

\* variant: the mask keeps every row
isin_all(r, choix) == TRUE

isin(r, choix) == r.val["Ligne"] \in choix

\* variant: an empty selection selects no row
filter_lignes_nofallback(d, choix_lignes) ==
    [cols |-> d.cols, rows |-> SelectSeq(d.rows, LAMBDA r : isin(r, choix_lignes))]

\* variant: an empty selection yields the table without its rows
filter_lignes_cleared(d, choix_lignes) ==
    IF choix_lignes # {}
    THEN [cols |-> d.cols, rows |-> SelectSeq(d.rows, LAMBDA r : isin(r, choix_lignes))]
    ELSE [cols |-> d.cols, rows |-> <<>>]

filter_lignes(d, choix_lignes) ==
    IF choix_lignes # {}
    THEN [cols |-> d.cols, rows |-> SelectSeq(d.rows, LAMBDA r : isin(r, choix_lignes))]
    ELSE d

filter(d, s) ==
    IF ~empty(d) /\ "Ligne" \in d.cols
    THEN filter_lignes(d, multiselect(s, lignes_dispo(d)))
    ELSE d

-----------------------------------------------------------------------------
(* Pages *)

Pages == {"Accueil", "Statistiques", "Carte", "Donnees"}

count_gratuit(d) == Len(SelectSeq(d.rows, LAMBDA r : r.val["Tarif"] = Str("Gratuit")))

page_accueil(d, dfiltre) ==
    {"title", "success"} \cup (IF ~empty(d) THEN {"metric", "pie"} ELSE {})

page_metrics(m, d, dfiltre) ==
    IF m = "Accueil" /\ ~empty(d) THEN <<Len(dfiltre.rows), count_gratuit(dfiltre)>> ELSE <<>>

page_statistiques(dfiltre) ==
    {"title"} \cup (IF ~empty(dfiltre) THEN {"bar"} ELSE {"Pas de donnees."})

page_carte(dfiltre) ==
    {"title"} \cup (IF ~empty(dfiltre) THEN {"map"} ELSE {"Pas de donnees GPS."})

page_donnees(dfiltre) == {"title", "dataframe"}

render(m, d, dfiltre) ==
    CASE m = "Accueil" -> page_accueil(d, dfiltre)
      [] m = "Statistiques" -> page_statistiques(dfiltre)
      [] m = "Carte" -> page_carte(dfiltre)
      [] OTHER -> page_donnees(dfiltre)


-----------------------------------------------------------------------------
(* Raw records of the cleaning specification *)

Absent == [t |-> "absent"]

CoordChoices ==
    {Absent, None, Str("48.85,2.35"),
     List(<<Num(1)>>), List(<<Num(1), Num(2)>>), List(<<None, Num(2)>>),
     List(<<Num(1), None>>), List(<<Num(1), Num(2), Num(3)>>)}

LigneChoices == {Absent, None, Str("4")}

TarifChoices == {Absent, None, Str("Payant")}

MkRecord(c, l, t) ==
    LET keys == (IF c = Absent THEN {} ELSE {"coord_geo"})
                \cup (IF l = Absent THEN {} ELSE {"ligne"})
                \cup (IF t = Absent THEN {} ELSE {"tarif_gratuit_payant"})
    IN [k \in keys |-> CASE k = "coord_geo" -> c
                         [] k = "ligne" -> l
                         [] OTHER -> t]

RawRecords == {MkRecord(c, l, t) : c \in CoordChoices, l \in LigneChoices, t \in TarifChoices}

SeqsUpTo(S, n) == UNION {[1..k -> S] : k \in 0..n}

-----------------------------------------------------------------------------
(* Cleaning specification: clean_data applied to every raw table *)

InitClean ==
    /\ pc = "input"
    /\ raw_df \in {DataFrame(recs) : recs \in SeqsUpTo(RawRecords, MaxRecords)}
    /\ cache = [hit |-> FALSE, df |-> EmptyDataFrame, errors |-> <<>>]
    /\ fetchCount = 0
    /\ served = "none"
    /\ menu = "Accueil"
    /\ sel = [user |-> FALSE, v |-> {}]
    /\ df = EmptyDataFrame
    /\ df_filtre = EmptyDataFrame
    /\ shown = {}
    /\ metrics = <<>>
    /\ response = NoResponse
    /\ exception = "none"

CleanStep ==
    /\ pc = "input"
    /\ pc' = "cleaned"
    /\ df' = clean_data(raw_df).df
    /\ exception' = clean_data(raw_df).exc
    /\ UNCHANGED <<cache, fetchCount, served, menu, sel, raw_df, df_filtre, shown, metrics, response>>

NextClean == CleanStep

SpecClean == InitClean /\ [][NextClean]_vars

-----------------------------------------------------------------------------
(* Responses of the session specification *)

ApiCoordChoices == {Absent, List(<<Num(1), Num(2)>>), List(<<None, Num(2)>>)}

ApiLigneChoices == {Absent, Str("1"), Str("4")}

\* every coord_geo and ligne with a tariff, the rows that survive cleaning
\* also without one, and a record without the key 'fields'
ApiRecords ==
    {[has_fields |-> TRUE, fields |-> MkRecord(c, l, Str("Gratuit"))] :
        c \in ApiCoordChoices, l \in ApiLigneChoices}
    \cup {[has_fields |-> TRUE, fields |-> MkRecord(List(<<Num(1), Num(2)>>), l, Absent)] :
        l \in ApiLigneChoices}
    \cup {[has_fields |-> FALSE, fields |-> <<>>]}

Outcomes ==
    {[exc |-> TRUE, status |-> 0, json |-> "none", has_records |-> FALSE, records |-> <<>>]}
    \cup {[exc |-> FALSE, status |-> st, json |-> "none", has_records |-> FALSE, records |-> <<>>] :
             st \in {404, 500}}
    \cup {[exc |-> FALSE, status |-> 200, json |-> j, has_records |-> FALSE, records |-> <<>>] :
             j \in {"invalid", "list", "dict"}}
    \cup {[exc |-> FALSE, status |-> 200, json |-> "dict", has_records |-> TRUE, records |-> recs] :
             recs \in SeqsUpTo(ApiRecords, MaxRecords)}

-----------------------------------------------------------------------------
(* Session specification: one whole script run per user interaction *)

Init ==
    /\ pc = "start"
    /\ cache = [hit |-> FALSE, df |-> EmptyDataFrame, errors |-> <<>>]
    /\ fetchCount = 0
    /\ served = "none"
    /\ menu = "Accueil"
    /\ sel = [user |-> FALSE, v |-> {}]
    /\ raw_df = EmptyDataFrame
    /\ df = EmptyDataFrame
    /\ df_filtre = EmptyDataFrame
    /\ shown = {}
    /\ metrics = <<>>
    /\ response = NoResponse
    /\ exception = "none"

Range(q) == {q[i] : i \in 1..Len(q)}

\* the script from top to bottom with the radio at m and the multiselect
\* state s; out is what the HTTP request meets if one is issued
ScriptRun(m, s, out) ==
    LET ld == Load(out)
        cl == clean_data(ld.res.df)
        dfiltre == filter(cl.df, s)
    IN /\ ld.fetched => fetchCount < MaxFetches
       /\ cache' = IF ld.fetched
                   THEN [hit |-> TRUE, df |-> ld.res.df, errors |-> ld.res.errors]
                   ELSE cache
       /\ fetchCount' = IF ld.fetched THEN fetchCount + 1 ELSE fetchCount
       /\ response' = IF ld.fetched THEN out ELSE response
       /\ served' = IF ld.fetched THEN "fetched" ELSE "cached"
       /\ raw_df' = ld.res.df
       /\ menu' = m
       /\ sel' = s
       /\ exception' = cl.exc
       /\ IF cl.exc # "none"
          THEN /\ pc' = "crashed"
               /\ df' = EmptyDataFrame
               /\ df_filtre' = EmptyDataFrame
               /\ shown' = Range(ld.res.errors) \cup {"exception"}
               /\ metrics' = <<>>
          ELSE /\ pc' = "rendered"
               /\ df' = cl.df
               /\ df_filtre' = dfiltre
               /\ shown' = Range(ld.res.errors) \cup render(m, cl.df, dfiltre)
               /\ metrics' = page_metrics(m, cl.df, dfiltre)

Responses == IF CacheLookup(cache) THEN {NoResponse} ELSE Outcomes

\* the session opens: first run, widgets at their defaults
Open ==
    /\ pc = "start"
    /\ \E out \in Responses : ScriptRun("Accueil", [user |-> FALSE, v |-> {}], out)

\* the user picks another page in the radio
SelectPage ==
    /\ pc = "rendered"
    /\ \E m \in Pages \ {menu} : \E out \in Responses : ScriptRun(m, sel, out)

\* the user changes the multiselect, displayed only for a non-empty table
SelectLines ==
    /\ pc = "rendered"
    /\ ~empty(df) /\ "Ligne" \in df.cols
    /\ \E c \in SUBSET lignes_dispo(df) :
          /\ c # multiselect(sel, lignes_dispo(df))
          /\ \E out \in Responses : ScriptRun(menu, [user |-> TRUE, v |-> c], out)

\* the user reruns the script, widgets untouched
Rerun ==
    /\ pc \in {"rendered", "crashed"}
    /\ \E out \in Responses : ScriptRun(menu, sel, out)

Next == Open \/ SelectPage \/ SelectLines \/ Rerun

Spec == Init /\ [][Next]_vars

-----------------------------------------------------------------------------
(* Properties of clean_data, stated over raw_df (input) and df (output) *)

Cleaned == pc = "cleaned"

RawCell(r, c) == IF c \in raw_df.cols THEN r.val[c] ELSE NaN

ValidCoord(x) == x.t = "list" /\ Len(x.v) = 2

HasRow(d, i) == \E k \in 1..Len(d.rows) : d.rows[k].idx = i

HasCell(d, r, c) == c \in d.cols /\ ~isna(r.val[c])

\* the row of the cleaned table is the cleaned form of the raw row r
IsCleanedRowOf(o, r) ==
    /\ o.idx = r.idx
    /\ {"lat", "lon", "Ligne", "Tarif", "color"} \subseteq df.cols
    /\ o.val["lat"] = RawCell(r, "coord_geo").v[1]
    /\ o.val["lon"] = RawCell(r, "coord_geo").v[2]
    /\ o.val["Ligne"].t = "str"
    /\ (RawCell(r, "ligne").t = "str" => o.val["Ligne"] = RawCell(r, "ligne"))
    /\ (~isna(RawCell(r, "tarif_gratuit_payant")) => o.val["Tarif"] = RawCell(r, "tarif_gratuit_payant"))
    /\ o.val["color"] = Str("#FF0000")

\* C2 (as claimed): for a non-empty raw record list clean_data returns a
\* table in which no record lacking a valid two-element coord_geo has a row,
\* which has zero rows when no record has a coord_geo field, and whose rows
\* all have non-null lat and lon.
C2_DropsRowsWithoutCoords ==
    (Cleaned /\ Len(raw_df.rows) > 0) =>
        /\ exception = "none"
        /\ \A i \in 1..Len(raw_df.rows) :
              ~ValidCoord(RawCell(raw_df.rows[i], "coord_geo")) => ~HasRow(df, raw_df.rows[i].idx)
        /\ ("coord_geo" \notin raw_df.cols => Len(df.rows) = 0)
        /\ \A k \in 1..Len(df.rows) : HasCell(df, df.rows[k], "lat") /\ HasCell(df, df.rows[k], "lon")

\* C3 (as claimed): every raw record whose coord_geo is a two-element list,
\* whatever its elements, has its row in the cleaned table with lat = element
\* 0, lon = element 1, Ligne and Tarif carrying the upstream ligne and
\* tarif_gratuit_payant, and color "#FF0000".
C3_AnyTwoElementListKept ==
    Cleaned =>
        \A i \in 1..Len(raw_df.rows) :
            ValidCoord(RawCell(raw_df.rows[i], "coord_geo")) =>
                \E k \in 1..Len(df.rows) : IsCleanedRowOf(df.rows[k], raw_df.rows[i])

NonNullCoord(x) == ValidCoord(x) /\ ~isna(x.v[1]) /\ ~isna(x.v[2])

\* C3 (amended): every raw record whose coord_geo is a two-element list with
\* both elements non-null has its row in the cleaned table with lat = element
\* 0, lon = element 1, Ligne and Tarif carrying the upstream ligne and
\* tarif_gratuit_payant, and color "#FF0000".
C3_NonNullTwoElementListKept ==
    Cleaned =>
        /\ (\E i \in 1..Len(raw_df.rows) : NonNullCoord(RawCell(raw_df.rows[i], "coord_geo")))
              => exception = "none"
        /\ \A i \in 1..Len(raw_df.rows) :
              NonNullCoord(RawCell(raw_df.rows[i], "coord_geo")) =>
                  \E k \in 1..Len(df.rows) : IsCleanedRowOf(df.rows[k], raw_df.rows[i])

\* a table of two records, one kept with its coordinates and one with a null
\* element dropped
C3_Witness ==
    /\ Cleaned
    /\ Len(raw_df.rows) = 2
    /\ NonNullCoord(RawCell(raw_df.rows[1], "coord_geo"))
    /\ RawCell(raw_df.rows[1], "ligne").t = "str"
    /\ ValidCoord(RawCell(raw_df.rows[2], "coord_geo"))
    /\ ~NonNullCoord(RawCell(raw_df.rows[2], "coord_geo"))
    /\ Len(df.rows) = 1
    /\ df.rows[1].val["lat"] = Num(1)
    /\ df.rows[1].val["lon"] = Num(2)

RawRowOf(o) == CHOOSE r \in {raw_df.rows[i] : i \in 1..Len(raw_df.rows)} : r.idx = o.idx

TarifLigneDefaulted(o) ==
    /\ HasCell(df, o, "Tarif")
    /\ o.val["Tarif"] = (IF isna(RawCell(RawRowOf(o), "tarif_gratuit_payant"))
                         THEN Str("Inconnu")
                         ELSE RawCell(RawRowOf(o), "tarif_gratuit_payant"))
    /\ "Ligne" \in df.cols
    /\ o.val["Ligne"].t = "str"
    /\ ("ligne" \notin raw_df.cols => o.val["Ligne"] = Str("Inconnue"))
    /\ (RawCell(RawRowOf(o), "ligne").t = "str" => o.val["Ligne"] = RawCell(RawRowOf(o), "ligne"))

-----------------------------------------------------------------------------
(* Properties of the session *)

Rendered == pc = "rendered"

DistinctLignes == IF "Ligne" \in df.cols THEN lignes_dispo(df) ELSE {}

Choix == IF sel.user THEN sel.v ELSE DistinctLignes

\* C1 (as claimed): whatever the fetch meets and whatever the page and line
\* selection, every script run completes without an uncaught exception; in
\* particular clean_data returns a table when the fetched table is non-empty
\* and has no lat / lon columns.
C1_NoUncaughtException ==
    pc # "start" => (exception = "none" /\ pc = "rendered")

\* C5: for a non-empty cleaned table and an empty chosen set of lines, the
\* filtered view equals the full cleaned table.
C5_EmptySelectionFallsBack ==
    (Rendered /\ ~empty(df) /\ sel.user /\ sel.v = {}) => df_filtre = df

\* the user emptied the multiselect over a table of two rows
C5_Witness ==
    /\ Rendered
    /\ sel.user /\ sel.v = {}
    /\ Len(df.rows) = 2
    /\ Len(df_filtre.rows) = 2

\* C6: for a non-empty chosen set drawn from the distinct Ligne values of the
\* cleaned table, the filtered view is exactly the rows of the cleaned table
\* whose Ligne is chosen, in the same order; choosing all available lines
\* yields the cleaned table itself, rows with a null upstream ligne included.
C6_FilterSemantics ==
    (Rendered /\ Choix # {} /\ Choix \subseteq DistinctLignes) =>
        /\ df_filtre.cols = df.cols
        /\ \A k \in 1..Len(df_filtre.rows) :
              /\ df_filtre.rows[k] \in Range(df.rows)
              /\ df_filtre.rows[k].val["Ligne"] \in Choix
        /\ \A r \in Range(df.rows) : r.val["Ligne"] \in Choix => r \in Range(df_filtre.rows)
        /\ \A j, k \in 1..Len(df_filtre.rows) :
              j < k => df_filtre.rows[j].idx < df_filtre.rows[k].idx
        /\ (Choix = DistinctLignes => df_filtre = df)

\* the user kept only the line of a row whose upstream ligne was missing
C6_Witness ==
    /\ Rendered
    /\ sel.user /\ sel.v = {Str("nan")}
    /\ DistinctLignes = {Str("nan"), Str("1")}
    /\ Len(df.rows) = 2
    /\ Len(df_filtre.rows) = 1

WellFormed(out) ==
    /\ ~out.exc
    /\ out.status = 200
    /\ out.json = "dict"
    /\ \A i \in 1..Len(out.records) : out.records[i].has_fields

Raised(out) ==
    \/ out.exc
    \/ out.status = 200 /\ out.json # "dict"
    \/ out.status = 200 /\ \E i \in 1..Len(out.records) : ~out.records[i].has_fields

\* C7: a call of load_data_from_api that met a non-200 status reports the
\* connection error and returns an empty table; one that met an exception
\* (request, JSON parsing, a record without 'fields') reports the technical
\* error and returns an empty table; one that met a well-formed 200 body
\* reports nothing and returns one row per record holding its fields; at most
\* one message is reported.
C7_FetchTaxonomy ==
    served = "fetched" =>
        /\ Len(cache.errors) <= 1
        /\ (~response.exc /\ response.status # 200) =>
              (cache.errors = <<ConnectionError>> /\ raw_df = EmptyDataFrame)
        /\ Raised(response) =>
              (cache.errors = <<TechnicalError>> /\ raw_df = EmptyDataFrame)
        /\ WellFormed(response) =>
              /\ cache.errors = <<>>
              /\ Len(raw_df.rows) = Len(response.records)
              /\ \A i \in 1..Len(response.records) :
                    \A c \in raw_df.cols :
                        raw_df.rows[i].val[c] =
                            (IF c \in DOMAIN response.records[i].fields
                             THEN response.records[i].fields[c] ELSE NaN)
              /\ \A i \in 1..Len(response.records) :
                    DOMAIN response.records[i].fields \subseteq raw_df.cols

\* a fetch that met HTTP 500
C7_Witness ==
    /\ served = "fetched"
    /\ response.status = 500
    /\ ConnectionError \in shown
    /\ empty(raw_df)

\* C8 (as claimed): when the cleaned table is empty, Accueil shows no success
\* banner, Statistiques shows its warning and Carte shows its warning.
C8_EmptyTableNeverSuccess ==
    (Rendered /\ empty(df)) =>
        /\ "success" \notin shown
        /\ (menu = "Statistiques" => "Pas de donnees." \in shown)
        /\ (menu = "Carte" => "Pas de donnees GPS." \in shown)

\* C9: the HTTP request is issued at most once; once the cache holds a
\* result, every run leaves the cache and the request count untouched and is
\* served the cached table, also when the fetch failed.
C9_AtMostOnceFetch ==
    /\ [](fetchCount <= 1)
    /\ [][cache.hit => /\ fetchCount' = fetchCount
                       /\ cache' = cache
                       /\ raw_df' = cache.df
                       /\ served' = "cached"]_vars

\* a run served from the cache after a failed fetch
C9_Witness ==
    /\ served = "cached"
    /\ fetchCount = 1
    /\ cache.errors # <<>>
    /\ empty(raw_df)

\* C10: the filtered view is empty exactly when the cleaned table is empty,
\* so the warnings of Statistiques and Carte appear only for an empty cleaned
\* table, whatever the line selection.
C10_EmptyViewIffEmptyTable ==
    Rendered =>
        /\ empty(df_filtre) <=> empty(df)
        /\ "Pas de donnees." \in shown => empty(df)
        /\ "Pas de donnees GPS." \in shown => empty(df)

\* Statistiques drawn with a proper, non-empty selection over a table with
\* two lines
C10_Witness ==
    /\ Rendered
    /\ menu = "Statistiques"
    /\ sel.user /\ sel.v = {Str("4")}
    /\ DistinctLignes = {Str("1"), Str("4")}
    /\ "bar" \in shown

====
